---- MODULE Spec2Model ----
(***************************************************************************)
(* Two example drivers of the repository as one state machine:             *)
(*   - examples/advanced_features/advanced_driver.c : a USB device record  *)
(*     with a lifecycle state, a 64-byte command buffer, one bulk URB, a   *)
(*     spinlock, a work item and a delayed work item;                      *)
(*   - examples/async_demo/async_demo_example.c : a platform device with a *)
(*     coarse timer, a high-resolution timer, a tasklet, a work item, a    *)
(*     periodic delayed work item and a kernel thread.                     *)
(* A behaviour binds one of the two drivers (variable drv) and runs it:    *)
(* the drivers share no state.                                             *)
(*                                                                         *)
(* Granularity.  Every shared-memory access that is not protected against  *)
(* every other writer is a step of its own: the read of dev->state and the *)
(* later write of it are different steps wherever the C code has them in   *)
(* different statements, so the interleavings of the unlocked writers are  *)
(* behaviours of the model.  Acquiring a lock is merged with the first     *)
(* read under it and releasing it with the last write under it.            *)
(*                                                                         *)
(* Environment.  advanced_driver.c defines send_command, process_response, *)
(* the file operations and the two work handlers but contains no call that *)
(* queues the work items, registers the file operations or feeds           *)
(* process_response.  The model lets callers invoke these entry points     *)
(* while the interface data is set, and lets disconnect start when no such *)
(* call is in progress.                                                    *)
(***************************************************************************)
EXTENDS Integers, Sequences, FiniteSets, TLC

(* ------------------------------------------------------------------ *)
(* Bounds of the model                                                 *)
(* ------------------------------------------------------------------ *)
\* payload lengths 0..MaxLen are offered to send_command besides the
\* capacity and the first oversized length
MaxLen == 0
\* number of distinct payload fill patterns offered by callers
MaxFill == 1

(* ------------------------------------------------------------------ *)
(* advanced_driver.c : constants                                       *)
(* ------------------------------------------------------------------ *)
STATE_IDLE == 0
STATE_CONNECTING == 1
STATE_CONNECTED == 2
STATE_TRANSFERRING == 3
STATE_ERROR == 0 - 1

CMD_READ == 1
CMD_WRITE == 2
CMD_CONTROL == 3
CMD_STATUS == 4
CMD_RESET == 255

\* errno values used by the driver (asm-generic/errno*.h)
ENOENT == 2
ENXIO == 6
ENOMEM == 12
EFAULT == 14
EBUSY == 16
ENODEV == 19
EINVAL == 22
EPROTO == 71
ECONNRESET == 104
ESHUTDOWN == 108
EINPROGRESS == 115

RESULT_OK == 0
RESULT_BUSY == 0 - EBUSY
RESULT_NOMEM == 0 - ENOMEM
RESULT_INVALID == 0 - EINVAL

\* union data_packet: 64 bytes, frame view = 4 header bytes + 60 payload
PACKET_SIZE == 64
HEADER_SIZE == 4
PAYLOAD_SIZE == 60
SYNC_BYTE == 170

NULL == 0 - 1
\* no entry point has returned yet
NoRet == 9999

States == {STATE_IDLE, STATE_CONNECTING, STATE_CONNECTED, STATE_TRANSFERRING, STATE_ERROR}
Cmds == {CMD_READ, CMD_WRITE, CMD_CONTROL, CMD_STATUS, CMD_RESET}

\* urb->status values delivered to the completion callback
ShutdownStatus == {0 - ENOENT, 0 - ECONNRESET, 0 - ESHUTDOWN}
UrbStatuses == {0, 0 - EPROTO} \cup ShutdownStatus

\* contexts of the advanced driver
Users == {"u1", "u2"}
Callers == Users \cup {"cmd", "work", "dwork"}
AdvCtx == Callers \cup {"urb"}

\* inputs offered by callers of send_command
Lens == (0..MaxLen) \cup {PAYLOAD_SIZE, PAYLOAD_SIZE + 1}
Datas == {NULL} \cup (1..MaxFill)
NoArgs == [cmd |-> 0, data |-> NULL, len |-> 0]

\* byte i of the caller's data buffer with fill pattern d
DataAt(d, i) == (d + i) % 256

\* a NULL packet pointer handed to process_response
NullPacket == [i \in {} |-> 0]

\* the all-zero packet left by kzalloc
ZeroPacket == [i \in 0..(PACKET_SIZE - 1) |-> 0]

VARIABLES
    drv,            \* which driver this behaviour binds: "adv" or "demo"
    \* ---- advanced_driver.c ----
    dev,            \* device record: "absent", "live", "failed", "freed"
    intfdata,       \* usb_set_intfdata(interface, dev) in effect
    state,          \* dev->state
    last_result,    \* dev->last_result
    tx_buffer,      \* dev->tx_buffer.bytes
    ctrl_raw,       \* dev->ctrl.raw
    auto_reconnect, \* dev->config.auto_reconnect
    lock,           \* holder of dev->lock, or "none"
    inflight,       \* dev->bulk_urb is submitted and not yet given back
    urb_status,     \* dev->bulk_urb->status as seen by the callback
    wq,             \* [work, dwork] -> "idle" | "queued"
    pc,             \* position of every context of the advanced driver
    sc,             \* arguments of the send_command call a context is in
    ret,            \* the last value an entry point returned
    opened,         \* user -> its file is open (open returned 0)
    disc,           \* position of advanced_disconnect
    res,            \* what the device record holds: the record itself, the
                    \* usb_device reference and the two URBs
    closed,         \* a release() has returned that left no file open, and
                    \* no open() has succeeded since
    \* ---- async_demo_example.c ----
    ddev,           \* async_demo_dev record: "absent", "live", "failed", "freed"
    running,        \* atomic_t dev->running
    kthread,        \* position of demo_kthread_func
    should_stop,    \* kthread_should_stop() of dev->kthread
    thread_done,    \* count of the completion dev->thread_done
    timer,          \* dev->timer: "idle" or "pending"
    hrtimer,        \* dev->hrtimer: "idle" or "armed"
    tasklet,        \* dev->tasklet: "idle", "sched", or "kill" (SCHED bit
                    \* held by tasklet_kill)
    work,           \* dev->work: "idle", "queued", or "cancel" (PENDING bit
                    \* held by cancel_work_sync)
    delayed_work,   \* dev->delayed_work: "idle", "queued" or "cancel"
    run,            \* position of each running handler, "idle" if none
    mutex,          \* holder of pdev->dev.mutex: "none", "core" or "work"
    dlock,          \* holder of the demo device's spinlock, or "none"
    rm,             \* position of async_demo_remove
    fired           \* periodic producer -> number of its firings that began
                    \* after dev->running was cleared (counted up to 2)

advVars == << res, closed, dev, intfdata, state, last_result, tx_buffer, ctrl_raw,
              auto_reconnect, lock, inflight, urb_status, wq, pc,
              sc, ret, opened, disc >>

demoVars == << ddev, running, kthread, should_stop, thread_done, timer,
               hrtimer, tasklet, work, delayed_work, run, mutex, dlock, rm,
               fired >>

vars == << drv, advVars, demoVars >>


(* ------------------------------------------------------------------ *)
(* advanced_driver.c : pure helpers                                    *)
(* ------------------------------------------------------------------ *)
Min(a, b) == IF a < b THEN a ELSE b

\* send_command lines 224-231: memset, header, optional payload copy
Encode(cmd, data, len) ==
    [i \in 0..(PACKET_SIZE - 1) |->
        CASE i = 0 -> SYNC_BYTE
          [] i = 1 -> cmd % 256
          [] i = 2 -> len % 256
          [] i = 3 -> (len \div 256) % 256
          [] OTHER -> IF data # NULL /\ len > 0 /\ len <= PAYLOAD_SIZE
                         /\ i - HEADER_SIZE < len
                      THEN DataAt(data, i - HEADER_SIZE)
                      ELSE 0]

\* *(uint32_t *)packet->frame.payload on a little-endian host
PayloadWord(pkt) ==
    pkt[4] + 256 * pkt[5] + 65536 * pkt[6] + 16777216 * pkt[7]

\* process_response: the value it returns for a packet (NULL or 64 bytes)
ResponseResult(pkt) ==
    IF pkt = NullPacket THEN RESULT_INVALID
    ELSE IF pkt[0] # SYNC_BYTE THEN RESULT_INVALID
    ELSE IF pkt[1] \in {CMD_READ, CMD_WRITE, CMD_STATUS, CMD_RESET} THEN RESULT_OK
    ELSE RESULT_INVALID

\* packets offered to process_response: a frame whose sync byte is wrong,
\* a Status frame and a Reset frame (RespPackets); with them a NULL
\* pointer, frames of every command code and of an unknown code, and Status
\* frames with a full payload (AllPackets)
BadSync == [Encode(CMD_RESET, NULL, 0) EXCEPT ![0] = 0]
RespPackets ==
    {BadSync, Encode(CMD_STATUS, NULL, 0), Encode(CMD_RESET, NULL, 0)}
AllPackets ==
    RespPackets \cup {NullPacket}
                \cup {Encode(c, NULL, 0) : c \in Cmds \cup {0}}
                \cup {Encode(CMD_STATUS, d, PAYLOAD_SIZE) : d \in 1..MaxFill}

(* ------------------------------------------------------------------ *)
(* Init                                                                *)
(* ------------------------------------------------------------------ *)
AdvInit ==
    /\ dev = "absent"
    /\ intfdata = FALSE
    /\ state = STATE_IDLE
    /\ last_result = RESULT_OK
    /\ tx_buffer = ZeroPacket
    /\ ctrl_raw = 0
    /\ auto_reconnect = FALSE
    /\ lock = "none"
    /\ inflight = FALSE
    /\ urb_status = 0
    /\ wq = [w \in {"work", "dwork"} |-> "idle"]
    /\ pc = [c \in AdvCtx |-> "idle"]
    /\ sc = [c \in Callers |-> NoArgs]
    /\ ret = NoRet
    /\ opened = [u \in Users |-> FALSE]
    /\ disc = "none"
    /\ res = {}
    /\ closed = FALSE

\* handlers of the demo driver that run in a context of their own
Handlers == {"timer", "hrtimer", "tasklet", "work", "delayed_work"}

\* the producers that re-arm themselves
Periodic == {"timer", "hrtimer", "delayed_work"}

DemoInit ==
    /\ ddev = "absent"
    /\ running = 0
    /\ kthread = "none"
    /\ should_stop = FALSE
    /\ thread_done = 0
    /\ timer = "idle"
    /\ hrtimer = "idle"
    /\ tasklet = "idle"
    /\ work = "idle"
    /\ delayed_work = "idle"
    /\ run = [h \in Handlers |-> "idle"]
    /\ mutex = "none"
    /\ dlock = "none"
    /\ rm = "none"
    /\ fired = [h \in Periodic |-> 0]

Init ==
    /\ drv \in {"adv", "demo"}
    /\ AdvInit
    /\ DemoInit

(* ------------------------------------------------------------------ *)
(* advanced_probe                                                      *)
(* ------------------------------------------------------------------ *)
\* the points at which probe can fail: kzalloc, either usb_alloc_urb, the
\* endpoint lookup
ProbeFailures == {"none", "kzalloc", "ctrl_urb", "bulk_urb", "endpoints"}

\* what probe has acquired when it reaches the failing point (lines
\* 373-401): the record, the device reference, and those URBs whose
\* allocation succeeded
ProbeAcquired(fail) ==
    CASE fail = "kzalloc" -> {}
      [] fail = "ctrl_urb" -> {"record", "udev", "bulk_urb"}
      [] fail = "bulk_urb" -> {"record", "udev", "ctrl_urb"}
      [] OTHER -> {"record", "udev", "ctrl_urb", "bulk_urb"}

\* variant: the error path frees the URBs and the record but keeps the
\* device reference
ProbeError_NoPut(held) == held \ {"ctrl_urb", "bulk_urb", "record"}

\* lines 417-421, the error path: usb_free_urb twice (NULL is accepted),
\* usb_put_dev, kfree
ProbeError(held) == held \ {"ctrl_urb", "bulk_urb", "udev", "record"}

\* the value probe returns
ProbeResult(fail) ==
    CASE fail = "none" -> 0
      [] fail = "endpoints" -> 0 - ENXIO
      [] OTHER -> 0 - ENOMEM

\* kzalloc zeroes the record; probe sets state, config, work items, URBs.
\* A failure of kzalloc returns at once; a later failure goes through the
\* error path.
AdvProbe(fail) ==
    /\ drv = "adv"
    /\ dev = "absent"
    /\ ret' = ProbeResult(fail)
    /\ IF fail = "none"
       THEN /\ dev' = "live"
            /\ res' = ProbeAcquired(fail)
            /\ intfdata' = TRUE
            /\ state' = STATE_IDLE
            /\ auto_reconnect' = TRUE
       ELSE /\ dev' = "failed"
            /\ res' = IF fail = "kzalloc" THEN ProbeAcquired(fail)
                      ELSE ProbeError(ProbeAcquired(fail))
            /\ UNCHANGED << intfdata, state, auto_reconnect >>
    /\ UNCHANGED << drv, demoVars, closed, last_result, tx_buffer, ctrl_raw, lock, inflight,
                    urb_status, wq, pc, sc, opened, disc >>

\* a client rewrites dev->config.auto_reconnect (struct device_config)
AdvSetConfig(b) ==
    /\ dev = "live" /\ intfdata
    /\ b # auto_reconnect
    /\ auto_reconnect' = b
    /\ UNCHANGED << drv, demoVars, res, closed, dev, intfdata, state, last_result, tx_buffer, ctrl_raw,
                    lock, inflight, urb_status, wq, pc, sc, ret,
                    opened, disc >>

(* ------------------------------------------------------------------ *)
(* send_command                                                        *)
(* ------------------------------------------------------------------ *)
\* what a caller does with send_command's return value r:
\*   device_write returns r if r < 0, else to_copy; device_work_handler
\*   drops the spinlock; the others ignore or pass on r.
Return(c, r) ==
    /\ pc' = [pc EXCEPT ![c] = "idle"]
    /\ ret' = IF c \in Users /\ r >= 0 THEN sc[c].len ELSE r
    /\ sc' = [sc EXCEPT ![c] = NoArgs]
    /\ lock' = IF c = "work" THEN "none" ELSE lock

\* variant: no state check on entry
SCEnter_NoCheck(c, a) ==
    /\ pc' = [pc EXCEPT ![c] = "sc_build"]
    /\ sc' = [sc EXCEPT ![c] = a]
    /\ UNCHANGED << state, tx_buffer, inflight, urb_status, ret, lock >>

\* line 220: the state check on entry with arguments a
SCEnter(c, a) ==
    IF state = STATE_ERROR
    THEN /\ Return(c, 0 - EINVAL)
         /\ UNCHANGED << state, tx_buffer, inflight, urb_status >>
    ELSE /\ pc' = [pc EXCEPT ![c] = "sc_build"]
         /\ sc' = [sc EXCEPT ![c] = a]
         /\ UNCHANGED << state, tx_buffer, inflight, urb_status, ret, lock >>

\* a caller in process context invokes send_command(dev, cmd, data, len)
SendCommandCall(cmd, data, len) ==
    /\ dev = "live" /\ intfdata
    /\ pc["cmd"] = "idle"
    /\ SCEnter("cmd", [cmd |-> cmd, data |-> data, len |-> len])
    /\ UNCHANGED << drv, demoVars, res, closed, dev, intfdata, last_result, ctrl_raw, auto_reconnect,
                    wq, opened, disc >>

\* send_command entered from a handler that prepared its arguments
SCCheck(c) ==
    /\ pc[c] = "sc_check"
    /\ SCEnter(c, sc[c])
    /\ UNCHANGED << drv, demoVars, res, closed, dev, intfdata, last_result, ctrl_raw, auto_reconnect,
                    wq, opened, disc >>

\* lines 224-233: build the frame in tx_buffer, state = STATE_TRANSFERRING
SCBuild(c) ==
    /\ pc[c] = "sc_build"
    /\ tx_buffer' = Encode(sc[c].cmd, sc[c].data, sc[c].len)
    /\ state' = STATE_TRANSFERRING
    /\ pc' = [pc EXCEPT ![c] = "sc_submit"]
    /\ UNCHANGED << drv, demoVars, res, closed, dev, intfdata, last_result, ctrl_raw, auto_reconnect,
                    lock, inflight, urb_status, wq, sc, ret, opened,
                    disc >>

\* usb_submit_urb(dev->bulk_urb): an URB that is still active is refused
\* with -EBUSY; otherwise the host controller accepts it (ok) or not.
SubmitResults == {0, 0 - ENOMEM}

\* lines 236-244: usb_fill_bulk_urb, usb_submit_urb, return
SCSubmit(c, r) ==
    /\ pc[c] = "sc_submit"
    /\ IF inflight
       THEN /\ r = 0 - EBUSY
            /\ UNCHANGED << inflight, urb_status >>
       ELSE /\ r \in SubmitResults
            /\ inflight' = (r = 0)
            /\ urb_status' = IF r = 0 THEN 0 - EINPROGRESS ELSE urb_status
    /\ Return(c, r)
    /\ UNCHANGED << drv, demoVars, res, closed, dev, intfdata, state, last_result, tx_buffer, ctrl_raw,
                    auto_reconnect, wq, opened, disc >>


(* ------------------------------------------------------------------ *)
(* file operations                                                     *)
(* ------------------------------------------------------------------ *)
\* device_open lines 285-289: spin_lock, the state test, the Busy return
DeviceOpenLock(u) ==
    /\ dev = "live" /\ intfdata
    /\ pc[u] = "idle" /\ ~opened[u]
    /\ lock = "none"
    /\ IF state # STATE_IDLE
       THEN /\ ret' = 0 - EBUSY
            /\ UNCHANGED << pc, lock >>
       ELSE /\ lock' = u
            /\ pc' = [pc EXCEPT ![u] = "open_set"]
            /\ UNCHANGED ret
    /\ UNCHANGED << drv, demoVars, res, closed, dev, intfdata, state, last_result, tx_buffer, ctrl_raw,
                    auto_reconnect, inflight, urb_status, wq, sc,
                    opened, disc >>

\* variant: open completes the connection itself
DeviceOpenSet_Connected(u) ==
    /\ pc[u] = "open_set"
    /\ state' = STATE_CONNECTED
    /\ lock' = "none"
    /\ opened' = [opened EXCEPT ![u] = TRUE]
    /\ ret' = 0
    /\ pc' = [pc EXCEPT ![u] = "idle"]
    /\ closed' = FALSE
    /\ UNCHANGED << drv, demoVars, res, dev, intfdata, last_result, tx_buffer, ctrl_raw,
                    auto_reconnect, inflight, urb_status, wq, sc,
                    disc >>

\* device_open lines 290-297: the write, spin_unlock, the (NULL) on_connect
\* hook, return 0
DeviceOpenSet(u) ==
    /\ pc[u] = "open_set"
    /\ state' = STATE_CONNECTING
    /\ lock' = "none"
    /\ opened' = [opened EXCEPT ![u] = TRUE]
    /\ ret' = 0
    /\ pc' = [pc EXCEPT ![u] = "idle"]
    /\ closed' = FALSE
    /\ UNCHANGED << drv, demoVars, res, dev, intfdata, last_result, tx_buffer, ctrl_raw,
                    auto_reconnect, inflight, urb_status, wq, sc,
                    disc >>

\* device_release lines 302-308: the (NULL) on_disconnect hook, spin_lock
DeviceReleaseLock(u) ==
    /\ dev = "live" /\ intfdata
    /\ pc[u] = "idle" /\ opened[u]
    /\ lock = "none"
    /\ lock' = u
    /\ pc' = [pc EXCEPT ![u] = "rel_set"]
    /\ UNCHANGED << drv, demoVars, res, closed, dev, intfdata, state, last_result, tx_buffer, ctrl_raw,
                    auto_reconnect, inflight, urb_status, wq, sc, ret,
                    opened, disc >>

\* device_release lines 309-312: the write, spin_unlock, return 0
DeviceReleaseSet(u) ==
    /\ pc[u] = "rel_set"
    /\ state' = STATE_IDLE
    /\ lock' = "none"
    /\ opened' = [opened EXCEPT ![u] = FALSE]
    /\ ret' = 0
    /\ pc' = [pc EXCEPT ![u] = "idle"]
    /\ closed' = (\A v \in Users \ {u} : ~opened[v])
    /\ UNCHANGED << drv, demoVars, res, dev, intfdata, last_result, tx_buffer, ctrl_raw,
                    auto_reconnect, inflight, urb_status, wq, sc,
                    disc >>

\* byte counts offered to read and write
Counts == Lens \cup {PACKET_SIZE + 1}

\* device_read: -ENODEV unless Connected, else min(count, 64) bytes of
\* rx_buffer go to the user (copy_to_user may fault)
DeviceRead(u) ==
    /\ dev = "live" /\ intfdata
    /\ pc[u] = "idle" /\ opened[u]
    /\ IF state # STATE_CONNECTED
       THEN ret' = 0 - ENODEV
       ELSE \E count \in Counts, fault \in BOOLEAN :
               ret' = IF fault THEN 0 - EFAULT ELSE Min(count, PACKET_SIZE)
    /\ UNCHANGED << drv, demoVars, res, closed, dev, intfdata, state, last_result, tx_buffer, ctrl_raw,
                    auto_reconnect, lock, inflight, urb_status, wq, pc,
                    sc, opened, disc >>

\* device_write lines 339-347: -ENODEV unless Connected; else copy
\* min(count, 60) user bytes into tx_buffer.frame.payload and call
\* send_command(dev, CMD_WRITE, NULL, to_copy)
DeviceWrite(u) ==
    /\ dev = "live" /\ intfdata
    /\ pc[u] = "idle" /\ opened[u]
    /\ IF state # STATE_CONNECTED
       THEN /\ ret' = 0 - ENODEV
            /\ UNCHANGED << tx_buffer, pc, sc >>
       ELSE \E count \in Counts, fill \in 1..MaxFill, fault \in BOOLEAN :
              IF fault
              THEN /\ ret' = 0 - EFAULT
                   /\ UNCHANGED << tx_buffer, pc, sc >>
              ELSE /\ tx_buffer' =
                        [i \in 0..(PACKET_SIZE - 1) |->
                           IF i >= HEADER_SIZE
                              /\ i - HEADER_SIZE < Min(count, PAYLOAD_SIZE)
                           THEN DataAt(fill, i - HEADER_SIZE)
                           ELSE tx_buffer[i]]
                   /\ sc' = [sc EXCEPT ![u] = [cmd |-> CMD_WRITE, data |-> NULL,
                                               len |-> Min(count, PAYLOAD_SIZE)]]
                   /\ pc' = [pc EXCEPT ![u] = "sc_check"]
                   /\ UNCHANGED ret
    /\ UNCHANGED << drv, demoVars, res, closed, dev, intfdata, state, last_result, ctrl_raw,
                    auto_reconnect, lock, inflight, urb_status, wq,
                    opened, disc >>

(* ------------------------------------------------------------------ *)
(* work items                                                          *)
(* ------------------------------------------------------------------ *)
\* a client queues the work item or the delayed work item
AdvQueueWork(w) ==
    /\ dev = "live" /\ intfdata
    /\ wq[w] = "idle"
    /\ wq' = [wq EXCEPT ![w] = "queued"]
    /\ UNCHANGED << drv, demoVars, res, closed, dev, intfdata, state, last_result, tx_buffer, ctrl_raw,
                    auto_reconnect, lock, inflight, urb_status, pc, sc,
                    ret, opened, disc >>

\* variant: the handler sends the Status command whatever the state is
DeviceWorkHandler_Always ==
    /\ wq["work"] = "queued" /\ pc["work"] = "idle"
    /\ lock = "none"
    /\ wq' = [wq EXCEPT !["work"] = "idle"]
    /\ lock' = "work"
    /\ sc' = [sc EXCEPT !["work"] = [cmd |-> CMD_STATUS, data |-> NULL, len |-> 0]]
    /\ pc' = [pc EXCEPT !["work"] = "sc_check"]
    /\ UNCHANGED << drv, demoVars, res, closed, dev, intfdata, state, last_result, tx_buffer, ctrl_raw,
                    auto_reconnect, inflight, urb_status, ret, opened,
                    disc >>

\* device_work_handler lines 191-198: spin_lock; if Connected call
\* send_command(dev, CMD_STATUS, NULL, 0) with the lock held; spin_unlock
DeviceWorkHandler ==
    /\ wq["work"] = "queued" /\ pc["work"] = "idle"
    /\ lock = "none"
    /\ wq' = [wq EXCEPT !["work"] = "idle"]
    /\ IF state = STATE_CONNECTED
       THEN /\ lock' = "work"
            /\ sc' = [sc EXCEPT !["work"] = [cmd |-> CMD_STATUS, data |-> NULL, len |-> 0]]
            /\ pc' = [pc EXCEPT !["work"] = "sc_check"]
       ELSE UNCHANGED << lock, sc, pc >>
    /\ UNCHANGED << drv, demoVars, res, closed, dev, intfdata, state, last_result, tx_buffer, ctrl_raw,
                    auto_reconnect, inflight, urb_status, ret, opened,
                    disc >>

\* variant: the tick tests the state only, not config.auto_reconnect
DeviceDelayedWorkHandler_IgnoreConfig ==
    /\ wq["dwork"] = "queued" /\ pc["dwork"] = "idle"
    /\ wq' = [wq EXCEPT !["dwork"] = "idle"]
    /\ IF state = STATE_ERROR
       THEN pc' = [pc EXCEPT !["dwork"] = "dw_set"]
       ELSE UNCHANGED pc
    /\ UNCHANGED << drv, demoVars, res, closed, dev, intfdata, state, last_result, tx_buffer, ctrl_raw,
                    auto_reconnect, lock, inflight, urb_status, sc, ret,
                    opened, disc >>

\* device_delayed_work_handler line 206: the test of state and auto_reconnect
DeviceDelayedWorkHandler ==
    /\ wq["dwork"] = "queued" /\ pc["dwork"] = "idle"
    /\ wq' = [wq EXCEPT !["dwork"] = "idle"]
    /\ IF state = STATE_ERROR /\ auto_reconnect
       THEN pc' = [pc EXCEPT !["dwork"] = "dw_set"]
       ELSE UNCHANGED pc
    /\ UNCHANGED << drv, demoVars, res, closed, dev, intfdata, state, last_result, tx_buffer, ctrl_raw,
                    auto_reconnect, lock, inflight, urb_status, sc, ret,
                    opened, disc >>

\* device_delayed_work_handler lines 207-209: state = STATE_CONNECTING, then
\* the call send_command(dev, CMD_RESET, NULL, 0)
DelayedWorkSet ==
    /\ pc["dwork"] = "dw_set"
    /\ state' = STATE_CONNECTING
    /\ sc' = [sc EXCEPT !["dwork"] = [cmd |-> CMD_RESET, data |-> NULL, len |-> 0]]
    /\ pc' = [pc EXCEPT !["dwork"] = "sc_check"]
    /\ UNCHANGED << drv, demoVars, res, closed, dev, intfdata, last_result, tx_buffer, ctrl_raw,
                    auto_reconnect, lock, inflight, urb_status, wq, ret,
                    opened, disc >>

(* ------------------------------------------------------------------ *)
(* transfer completion                                                 *)
(* ------------------------------------------------------------------ *)
\* the host controller gives the bulk URB back with status s and invokes
\* bulk_complete_callback
UrbGiveback(s) ==
    /\ inflight /\ pc["urb"] = "idle"
    /\ inflight' = FALSE
    /\ urb_status' = s
    /\ pc' = [pc EXCEPT !["urb"] = "cb_state"]
    /\ UNCHANGED << drv, demoVars, res, closed, dev, intfdata, state, last_result, tx_buffer, ctrl_raw,
                    auto_reconnect, lock, wq, sc, ret, opened, disc >>

\* variant: the shutdown statuses fall through to the default case
CallbackState_Fallthrough ==
    /\ pc["urb"] = "cb_state"
    /\ state' = IF urb_status = 0 THEN STATE_IDLE ELSE STATE_ERROR
    /\ pc' = [pc EXCEPT !["urb"] = "cb_result"]
    /\ UNCHANGED << drv, demoVars, res, closed, dev, intfdata, last_result, tx_buffer, ctrl_raw,
                    auto_reconnect, lock, inflight, urb_status, wq, sc,
                    ret, opened, disc >>

\* bulk_complete_callback lines 153-166: the write of dev->state
CallbackState ==
    /\ pc["urb"] = "cb_state"
    /\ state' = IF urb_status = 0 THEN STATE_IDLE ELSE STATE_ERROR
    /\ pc' = [pc EXCEPT !["urb"] = IF urb_status \in ShutdownStatus
                                   THEN "idle" ELSE "cb_result"]
    /\ UNCHANGED << drv, demoVars, res, closed, dev, intfdata, last_result, tx_buffer, ctrl_raw,
                    auto_reconnect, lock, inflight, urb_status, wq, sc,
                    ret, opened, disc >>

\* variant: a success completion records nothing
CallbackResult_OnlyFailure ==
    /\ pc["urb"] = "cb_result"
    /\ last_result' = IF urb_status = 0 THEN last_result ELSE RESULT_INVALID
    /\ pc' = [pc EXCEPT !["urb"] = "idle"]
    /\ UNCHANGED << drv, demoVars, res, closed, dev, intfdata, state, tx_buffer, ctrl_raw,
                    auto_reconnect, lock, inflight, urb_status, wq, sc,
                    ret, opened, disc >>

\* bulk_complete_callback lines 156-158 and 167: the write of
\* dev->last_result (the on_data hook is NULL)
CallbackResult ==
    /\ pc["urb"] = "cb_result"
    /\ last_result' = IF urb_status = 0 THEN RESULT_OK ELSE RESULT_INVALID
    /\ pc' = [pc EXCEPT !["urb"] = "idle"]
    /\ UNCHANGED << drv, demoVars, res, closed, dev, intfdata, state, tx_buffer, ctrl_raw,
                    auto_reconnect, lock, inflight, urb_status, wq, sc,
                    ret, opened, disc >>

(* ------------------------------------------------------------------ *)
(* process_response                                                    *)
(* ------------------------------------------------------------------ *)
\* process_response(dev, pkt): Status stores the payload word in ctrl.raw,
\* Reset writes state = STATE_IDLE; returns ResponseResult(pkt)
ProcessResponse(pkt) ==
    /\ dev = "live" /\ intfdata
    /\ ret' = ResponseResult(pkt)
    /\ IF pkt # NullPacket /\ pkt[0] = SYNC_BYTE /\ pkt[1] = CMD_RESET
       THEN state' = STATE_IDLE
       ELSE UNCHANGED state
    /\ IF pkt # NullPacket /\ pkt[0] = SYNC_BYTE /\ pkt[1] = CMD_STATUS
       THEN ctrl_raw' = PayloadWord(pkt)
       ELSE UNCHANGED ctrl_raw
    /\ UNCHANGED << drv, demoVars, res, closed, dev, intfdata, last_result, tx_buffer, auto_reconnect,
                    lock, inflight, urb_status, wq, pc, sc, opened,
                    disc >>


(* ------------------------------------------------------------------ *)
(* advanced_disconnect                                                 *)
(* ------------------------------------------------------------------ *)
\* lines 427-432: usb_set_intfdata(interface, NULL)
DisconnectStart ==
    /\ dev = "live" /\ intfdata /\ disc = "none"
    /\ \A c \in Users \cup {"cmd"} : pc[c] = "idle"
    /\ intfdata' = FALSE
    /\ disc' = "cancel_work"
    /\ UNCHANGED << drv, demoVars, res, closed, dev, state, last_result, tx_buffer, ctrl_raw,
                    auto_reconnect, lock, inflight, urb_status, wq, pc,
                    sc, ret, opened >>

\* line 435: cancel_work_sync(&dev->work) removes a queued item and waits
\* for a running handler
DisconnectCancelWork ==
    /\ disc = "cancel_work"
    /\ pc["work"] = "idle"
    /\ wq' = [wq EXCEPT !["work"] = "idle"]
    /\ disc' = "cancel_dwork"
    /\ UNCHANGED << drv, demoVars, res, closed, dev, intfdata, state, last_result, tx_buffer, ctrl_raw,
                    auto_reconnect, lock, inflight, urb_status, pc, sc,
                    ret, opened >>

\* line 436: cancel_delayed_work_sync(&dev->delayed_work)
DisconnectCancelDelayedWork ==
    /\ disc = "cancel_dwork"
    /\ pc["dwork"] = "idle"
    /\ wq' = [wq EXCEPT !["dwork"] = "idle"]
    /\ disc' = "kill_urb"
    /\ UNCHANGED << drv, demoVars, res, closed, dev, intfdata, state, last_result, tx_buffer, ctrl_raw,
                    auto_reconnect, lock, inflight, urb_status, pc, sc,
                    ret, opened >>

\* lines 439-440: usb_kill_urb on both URBs returns once the bulk URB is
\* given back and its completion callback has finished (the control URB is
\* never submitted)
DisconnectKillUrbs ==
    /\ disc = "kill_urb"
    /\ ~inflight /\ pc["urb"] = "idle"
    /\ disc' = "free"
    /\ UNCHANGED << drv, demoVars, res, closed, dev, intfdata, state, last_result, tx_buffer, ctrl_raw,
                    auto_reconnect, lock, inflight, urb_status, wq, pc,
                    sc, ret, opened >>

\* lines 441-445: usb_free_urb twice, usb_put_dev, kfree(dev)
DisconnectFree ==
    /\ disc = "free"
    /\ dev' = "freed"
    /\ res' = res \ {"ctrl_urb", "bulk_urb", "udev", "record"}
    /\ disc' = "done"
    /\ UNCHANGED << drv, demoVars, closed, intfdata, state, last_result, tx_buffer, ctrl_raw,
                    auto_reconnect, lock, inflight, urb_status, wq, pc,
                    sc, ret, opened >>

(* ------------------------------------------------------------------ *)
(* async_demo_example.c : async_demo_probe                             *)
(* ------------------------------------------------------------------ *)
DemoProbeFailures == {"none", "kzalloc", "kthread_run"}

\* async_demo_probe, called by the driver core: on success the thread is
\* created and woken, both timers are armed and the delayed work is
\* queued; a failure of kthread_run returns before anything is armed and
\* devm releases the record
AsyncDemoProbe(fail) ==
    /\ drv = "demo"
    /\ ddev = "absent"
    /\ IF fail = "kzalloc"
       THEN /\ ddev' = "failed"
            /\ UNCHANGED << running, kthread, timer, hrtimer, delayed_work >>
       ELSE IF fail = "kthread_run"
       THEN /\ ddev' = "failed"
            /\ running' = 1
            /\ UNCHANGED << kthread, timer, hrtimer, delayed_work >>
       ELSE /\ ddev' = "live"
            /\ running' = 1
            /\ kthread' = "created"
            /\ timer' = "pending"
            /\ hrtimer' = "armed"
            /\ delayed_work' = "queued"
    /\ UNCHANGED << drv, advVars, fired, should_stop, thread_done, tasklet, work, run,
                    mutex, dlock, rm >>

(* ------------------------------------------------------------------ *)
(* timers, tasklet, work items                                         *)
(* ------------------------------------------------------------------ *)
\* a firing of producer h begins: counted if running is already cleared
Fire(h) ==
    [fired EXCEPT ![h] = IF running = 0 /\ fired[h] < 2
                         THEN fired[h] + 1 ELSE fired[h]]

\* tasklet_schedule: sets the SCHED bit unless it is already set
TaskletSchedule(t) == IF t = "idle" THEN "sched" ELSE t

\* schedule_work / schedule_delayed_work: queues unless PENDING is set
QueueWork(w) == IF w = "idle" THEN "queued" ELSE w

\* the coarse timer expires: demo_timer_callback line 106, tasklet_schedule
TimerExpire ==
    /\ timer = "pending" /\ run["timer"] = "idle"
    /\ fired' = Fire("timer")
    /\ timer' = "idle"
    /\ run' = [run EXCEPT !["timer"] = "cb"]
    /\ tasklet' = TaskletSchedule(tasklet)
    /\ UNCHANGED << drv, advVars, ddev, running, kthread, should_stop,
                    thread_done, hrtimer, work, delayed_work, mutex, dlock, rm >>

\* variant: the timer callback re-arms whatever the running flag is
TimerCheck_Always ==
    /\ run["timer"] = "cb"
    /\ run' = [run EXCEPT !["timer"] = "rearm"]
    /\ UNCHANGED << drv, advVars, fired, ddev, running, kthread, should_stop,
                    thread_done, timer, hrtimer, tasklet, work, delayed_work,
                    mutex, dlock, rm >>

\* demo_timer_callback line 109: atomic_read(&dev->running); return if 0
TimerCheck ==
    /\ run["timer"] = "cb"
    /\ run' = [run EXCEPT !["timer"] = IF running = 1 THEN "rearm" ELSE "idle"]
    /\ UNCHANGED << drv, advVars, fired, ddev, running, kthread, should_stop,
                    thread_done, timer, hrtimer, tasklet, work, delayed_work,
                    mutex, dlock, rm >>

\* demo_timer_callback line 110: mod_timer, return
TimerRearm ==
    /\ run["timer"] = "rearm"
    /\ timer' = "pending"
    /\ run' = [run EXCEPT !["timer"] = "idle"]
    /\ UNCHANGED << drv, advVars, fired, ddev, running, kthread, should_stop,
                    thread_done, hrtimer, tasklet, work, delayed_work, mutex,
                    dlock, rm >>

\* the high-resolution timer expires and demo_hrtimer_callback starts
HrtimerExpire ==
    /\ hrtimer = "armed" /\ run["hrtimer"] = "idle"
    /\ fired' = Fire("hrtimer")
    /\ hrtimer' = "idle"
    /\ run' = [run EXCEPT !["hrtimer"] = "cb"]
    /\ UNCHANGED << drv, advVars, ddev, running, kthread, should_stop,
                    thread_done, timer, tasklet, work, delayed_work, mutex,
                    dlock, rm >>

\* demo_hrtimer_callback line 120: atomic_read(&dev->running); line 125:
\* return HRTIMER_NORESTART if 0
HrtimerCheck ==
    /\ run["hrtimer"] = "cb"
    /\ run' = [run EXCEPT !["hrtimer"] = IF running = 1 THEN "rearm" ELSE "idle"]
    /\ UNCHANGED << drv, advVars, fired, ddev, running, kthread, should_stop,
                    thread_done, timer, hrtimer, tasklet, work, delayed_work,
                    mutex, dlock, rm >>

\* demo_hrtimer_callback lines 121-122: hrtimer_forward_now, return
\* HRTIMER_RESTART, on which the hrtimer core enqueues the timer again
HrtimerReturn ==
    /\ run["hrtimer"] = "rearm"
    /\ hrtimer' = "armed"
    /\ run' = [run EXCEPT !["hrtimer"] = "idle"]
    /\ UNCHANGED << drv, advVars, fired, ddev, running, kthread, should_stop,
                    thread_done, timer, tasklet, work, delayed_work, mutex,
                    dlock, rm >>

\* the softirq runs the tasklet: demo_tasklet_handler line 89,
\* spin_lock_irqsave
TaskletRun ==
    /\ tasklet = "sched" /\ run["tasklet"] = "idle"
    /\ dlock = "none"
    /\ tasklet' = "idle"
    /\ dlock' = "tasklet"
    /\ run' = [run EXCEPT !["tasklet"] = "locked"]
    /\ UNCHANGED << drv, advVars, fired, ddev, running, kthread, should_stop,
                    thread_done, timer, hrtimer, work, delayed_work, mutex, rm >>

\* demo_tasklet_handler lines 91-94: spin_unlock_irqrestore, schedule_work
TaskletUnlock ==
    /\ run["tasklet"] = "locked"
    /\ dlock' = "none"
    /\ work' = QueueWork(work)
    /\ run' = [run EXCEPT !["tasklet"] = "idle"]
    /\ UNCHANGED << drv, advVars, fired, ddev, running, kthread, should_stop,
                    thread_done, timer, hrtimer, tasklet, delayed_work, mutex,
                    rm >>

\* a worker takes the work item: demo_work_handler line 59, msleep(100)
WorkRun ==
    /\ work = "queued" /\ run["work"] = "idle"
    /\ work' = "idle"
    /\ run' = [run EXCEPT !["work"] = "sleep"]
    /\ UNCHANGED << drv, advVars, fired, ddev, running, kthread, should_stop,
                    thread_done, timer, hrtimer, tasklet, delayed_work, mutex,
                    dlock, rm >>

\* demo_work_handler line 62: mutex_lock(&dev->pdev->dev.mutex)
WorkMutexLock ==
    /\ run["work"] = "sleep"
    /\ mutex = "none"
    /\ mutex' = "work"
    /\ run' = [run EXCEPT !["work"] = "held"]
    /\ UNCHANGED << drv, advVars, fired, ddev, running, kthread, should_stop,
                    thread_done, timer, hrtimer, tasklet, work, delayed_work,
                    dlock, rm >>

\* demo_work_handler line 64: mutex_unlock, return
WorkMutexUnlock ==
    /\ run["work"] = "held"
    /\ mutex' = "none"
    /\ run' = [run EXCEPT !["work"] = "idle"]
    /\ UNCHANGED << drv, advVars, fired, ddev, running, kthread, should_stop,
                    thread_done, timer, hrtimer, tasklet, work, delayed_work,
                    dlock, rm >>

\* the delay elapses and a worker starts demo_delayed_work_handler
DelayedWorkRun ==
    /\ delayed_work = "queued" /\ run["delayed_work"] = "idle"
    /\ fired' = Fire("delayed_work")
    /\ delayed_work' = "idle"
    /\ run' = [run EXCEPT !["delayed_work"] = "cb"]
    /\ UNCHANGED << drv, advVars, ddev, running, kthread, should_stop,
                    thread_done, timer, hrtimer, tasklet, work, mutex, dlock,
                    rm >>

\* demo_delayed_work_handler line 75: atomic_read(&dev->running)
DelayedWorkCheck ==
    /\ run["delayed_work"] = "cb"
    /\ run' = [run EXCEPT !["delayed_work"] =
                  IF running = 1 THEN "rearm" ELSE "idle"]
    /\ UNCHANGED << drv, advVars, fired, ddev, running, kthread, should_stop,
                    thread_done, timer, hrtimer, tasklet, work, delayed_work,
                    mutex, dlock, rm >>

\* demo_delayed_work_handler line 76: schedule_delayed_work, return
DelayedWorkRearm ==
    /\ run["delayed_work"] = "rearm"
    /\ delayed_work' = QueueWork(delayed_work)
    /\ run' = [run EXCEPT !["delayed_work"] = "idle"]
    /\ UNCHANGED << drv, advVars, fired, ddev, running, kthread, should_stop,
                    thread_done, timer, hrtimer, tasklet, work, mutex, dlock,
                    rm >>

(* ------------------------------------------------------------------ *)
(* demo_kthread_func                                                   *)
(* ------------------------------------------------------------------ *)
\* the new thread is scheduled for the first time: the kthread core calls
\* the thread function unless a stop was already requested
KthreadStart ==
    /\ kthread = "created"
    /\ kthread' = IF should_stop THEN "dead" ELSE "loop"
    /\ UNCHANGED << drv, advVars, fired, ddev, running, should_stop, thread_done,
                    timer, hrtimer, tasklet, work, delayed_work, run, mutex,
                    dlock, rm >>

\* line 163: while (!kthread_should_stop())
KthreadLoop ==
    /\ kthread = "loop"
    /\ kthread' = IF should_stop THEN "exit" ELSE "sleep"
    /\ UNCHANGED << drv, advVars, fired, ddev, running, should_stop, thread_done,
                    timer, hrtimer, tasklet, work, delayed_work, run, mutex,
                    dlock, rm >>

\* line 167: msleep_interruptible(2000) returns (timeout or wake-up)
KthreadWake ==
    /\ kthread = "sleep"
    /\ kthread' = "recheck"
    /\ UNCHANGED << drv, advVars, fired, ddev, running, should_stop, thread_done,
                    timer, hrtimer, tasklet, work, delayed_work, run, mutex,
                    dlock, rm >>

\* lines 170-171: if (kthread_should_stop()) break
KthreadRecheck ==
    /\ kthread = "recheck"
    /\ kthread' = IF should_stop THEN "exit" ELSE "loop"
    /\ UNCHANGED << drv, advVars, fired, ddev, running, should_stop, thread_done,
                    timer, hrtimer, tasklet, work, delayed_work, run, mutex,
                    dlock, rm >>

\* lines 175-177: complete(&dev->thread_done), return 0
KthreadComplete ==
    /\ kthread = "exit"
    /\ thread_done' = thread_done + 1
    /\ kthread' = "dead"
    /\ UNCHANGED << drv, advVars, fired, ddev, running, should_stop, timer, hrtimer,
                    tasklet, work, delayed_work, run, mutex, dlock, rm >>

(* ------------------------------------------------------------------ *)
(* async_demo_remove                                                   *)
(* ------------------------------------------------------------------ *)
\* variant: teardown goes to the timers first and leaves the thread alone
RemoveStart_TimersFirst ==
    /\ ddev = "live" /\ rm = "none"
    /\ mutex = "none"
    /\ mutex' = "core"
    /\ running' = 0
    /\ rm' = "hrtimer_cancel"
    /\ UNCHANGED << drv, advVars, fired, ddev, kthread, should_stop, thread_done,
                    timer, hrtimer, tasklet, work, delayed_work, run, dlock >>

\* the driver core takes the device mutex and calls async_demo_remove;
\* line 261: atomic_set(&dev->running, 0)
RemoveStart ==
    /\ ddev = "live" /\ rm = "none"
    /\ mutex = "none"
    /\ mutex' = "core"
    /\ running' = 0
    /\ rm' = "kthread_stop"
    /\ UNCHANGED << drv, advVars, fired, ddev, kthread, should_stop, thread_done,
                    timer, hrtimer, tasklet, work, delayed_work, run, dlock >>

\* line 265, kthread_stop: request the stop and wake the thread
RemoveKthreadStop ==
    /\ rm = "kthread_stop"
    /\ should_stop' = TRUE
    /\ rm' = "kthread_exit"
    /\ UNCHANGED << drv, advVars, fired, ddev, running, kthread, thread_done, timer,
                    hrtimer, tasklet, work, delayed_work, run, mutex, dlock >>

\* line 265, kthread_stop returns when the thread has exited
RemoveKthreadExited ==
    /\ rm = "kthread_exit"
    /\ kthread = "dead"
    /\ rm' = "wait_done"
    /\ UNCHANGED << drv, advVars, fired, ddev, running, kthread, should_stop,
                    thread_done, timer, hrtimer, tasklet, work, delayed_work,
                    run, mutex, dlock >>

\* line 266: wait_for_completion(&dev->thread_done)
RemoveWaitForCompletion ==
    /\ rm = "wait_done"
    /\ thread_done > 0
    /\ thread_done' = thread_done - 1
    /\ rm' = "hrtimer_cancel"
    /\ UNCHANGED << drv, advVars, fired, ddev, running, kthread, should_stop, timer,
                    hrtimer, tasklet, work, delayed_work, run, mutex, dlock >>

\* line 270: hrtimer_cancel waits for a running callback, then dequeues
RemoveHrtimerCancel ==
    /\ rm = "hrtimer_cancel"
    /\ run["hrtimer"] = "idle"
    /\ hrtimer' = "idle"
    /\ rm' = "del_timer"
    /\ UNCHANGED << drv, advVars, fired, ddev, running, kthread, should_stop,
                    thread_done, timer, tasklet, work, delayed_work, run, mutex,
                    dlock >>

\* variant: del_timer, which does not wait for a running callback
RemoveDelTimerSync_NoWait ==
    /\ rm = "del_timer"
    /\ timer' = "idle"
    /\ rm' = "tasklet_kill"
    /\ UNCHANGED << drv, advVars, fired, ddev, running, kthread, should_stop,
                    thread_done, hrtimer, tasklet, work, delayed_work, run,
                    mutex, dlock >>

\* line 273: del_timer_sync waits for a running callback, then deactivates
RemoveDelTimerSync ==
    /\ rm = "del_timer"
    /\ run["timer"] = "idle"
    /\ timer' = "idle"
    /\ rm' = "tasklet_kill"
    /\ UNCHANGED << drv, advVars, fired, ddev, running, kthread, should_stop,
                    thread_done, hrtimer, tasklet, work, delayed_work, run,
                    mutex, dlock >>

\* line 276, tasklet_kill: wait until the tasklet is not scheduled and take
\* the SCHED bit
RemoveTaskletKill ==
    /\ rm = "tasklet_kill"
    /\ tasklet = "idle"
    /\ tasklet' = "kill"
    /\ rm' = "tasklet_wait"
    /\ UNCHANGED << drv, advVars, fired, ddev, running, kthread, should_stop,
                    thread_done, timer, hrtimer, work, delayed_work, run, mutex,
                    dlock >>

\* line 276, tasklet_kill: wait until the handler is not running, clear SCHED
RemoveTaskletWait ==
    /\ rm = "tasklet_wait"
    /\ run["tasklet"] = "idle"
    /\ tasklet' = "idle"
    /\ rm' = "cancel_work"
    /\ UNCHANGED << drv, advVars, fired, ddev, running, kthread, should_stop,
                    thread_done, timer, hrtimer, work, delayed_work, run, mutex,
                    dlock >>

\* line 279, cancel_work_sync: take the PENDING bit (dequeues the item)
RemoveCancelWork ==
    /\ rm = "cancel_work"
    /\ work' = "cancel"
    /\ rm' = "flush_work"
    /\ UNCHANGED << drv, advVars, fired, ddev, running, kthread, should_stop,
                    thread_done, timer, hrtimer, tasklet, delayed_work, run,
                    mutex, dlock >>

\* line 279, cancel_work_sync: wait for a running handler, clear PENDING
RemoveFlushWork ==
    /\ rm = "flush_work"
    /\ run["work"] = "idle"
    /\ work' = "idle"
    /\ rm' = "cancel_dwork"
    /\ UNCHANGED << drv, advVars, fired, ddev, running, kthread, should_stop,
                    thread_done, timer, hrtimer, tasklet, delayed_work, run,
                    mutex, dlock >>

\* line 280, cancel_delayed_work_sync: take the PENDING bit
RemoveCancelDelayedWork ==
    /\ rm = "cancel_dwork"
    /\ delayed_work' = "cancel"
    /\ rm' = "flush_dwork"
    /\ UNCHANGED << drv, advVars, fired, ddev, running, kthread, should_stop,
                    thread_done, timer, hrtimer, tasklet, work, run, mutex,
                    dlock >>

\* line 280, cancel_delayed_work_sync: wait for a running handler
RemoveFlushDelayedWork ==
    /\ rm = "flush_dwork"
    /\ run["delayed_work"] = "idle"
    /\ delayed_work' = "idle"
    /\ rm' = "return"
    /\ UNCHANGED << drv, advVars, fired, ddev, running, kthread, should_stop,
                    thread_done, timer, hrtimer, tasklet, work, run, mutex,
                    dlock >>

\* line 287: return 0; devm releases the record and the core drops the mutex
RemoveReturn ==
    /\ rm = "return"
    /\ ddev' = "freed"
    /\ mutex' = "none"
    /\ rm' = "done"
    /\ UNCHANGED << drv, advVars, fired, running, kthread, should_stop, thread_done,
                    timer, hrtimer, tasklet, work, delayed_work, run, dlock >>

(* ------------------------------------------------------------------ *)
(* Next-state relation                                                 *)
(* ------------------------------------------------------------------ *)
AdvNext ==
    \/ \E f \in ProbeFailures : AdvProbe(f)
    \/ \E b \in BOOLEAN : AdvSetConfig(b)
    \/ SendCommandCall(CMD_STATUS, NULL, 0)
    \/ \E c \in Callers : SCCheck(c)
    \/ \E c \in Callers : SCBuild(c)
    \/ \E c \in Callers, r \in SubmitResults \cup {0 - EBUSY} : SCSubmit(c, r)
    \/ \E u \in Users : DeviceOpenLock(u)
    \/ \E u \in Users : DeviceOpenSet(u)
    \/ \E u \in Users : DeviceReleaseLock(u)
    \/ \E u \in Users : DeviceReleaseSet(u)
    \/ \E u \in Users : DeviceRead(u)
    \/ \E u \in Users : DeviceWrite(u)
    \/ \E w \in {"work", "dwork"} : AdvQueueWork(w)
    \/ DeviceWorkHandler
    \/ DeviceDelayedWorkHandler
    \/ DelayedWorkSet
    \/ \E s \in UrbStatuses : UrbGiveback(s)
    \/ CallbackState
    \/ CallbackResult
    \/ \E p \in RespPackets : ProcessResponse(p)
    \/ DisconnectStart
    \/ DisconnectCancelWork
    \/ DisconnectCancelDelayedWork
    \/ DisconnectKillUrbs
    \/ DisconnectFree

DemoNext ==
    \/ \E f \in DemoProbeFailures : AsyncDemoProbe(f)
    \/ TimerExpire
    \/ TimerCheck
    \/ TimerRearm
    \/ HrtimerExpire
    \/ HrtimerCheck
    \/ HrtimerReturn
    \/ TaskletRun
    \/ TaskletUnlock
    \/ WorkRun
    \/ WorkMutexLock
    \/ WorkMutexUnlock
    \/ DelayedWorkRun
    \/ DelayedWorkCheck
    \/ DelayedWorkRearm
    \/ KthreadStart
    \/ KthreadLoop
    \/ KthreadWake
    \/ KthreadRecheck
    \/ KthreadComplete
    \/ RemoveStart
    \/ RemoveKthreadStop
    \/ RemoveKthreadExited
    \/ RemoveWaitForCompletion
    \/ RemoveHrtimerCancel
    \/ RemoveDelTimerSync
    \/ RemoveTaskletKill
    \/ RemoveTaskletWait
    \/ RemoveCancelWork
    \/ RemoveFlushWork
    \/ RemoveCancelDelayedWork
    \/ RemoveFlushDelayedWork
    \/ RemoveReturn

Next == AdvNext \/ DemoNext

Spec == Init /\ [][Next]_vars

\* The command path alone, with every command code and the offered
\* payloads: one caller of send_command, the completion callback and
\* process_response.
CmdInit == drv = "adv" /\ AdvInit /\ DemoInit

CmdNext ==
    \/ AdvProbe("none")
    \/ \E c \in Cmds, d \in Datas, l \in Lens : SendCommandCall(c, d, l)
    \/ SCBuild("cmd")
    \/ \E r \in SubmitResults \cup {0 - EBUSY} : SCSubmit("cmd", r)
    \/ \E s \in UrbStatuses : UrbGiveback(s)
    \/ CallbackState
    \/ CallbackResult
    \/ \E p \in AllPackets : ProcessResponse(p)

SpecCmd == CmdInit /\ [][CmdNext]_vars


(* ------------------------------------------------------------------ *)
(* Properties                                                          *)
(* ------------------------------------------------------------------ *)

\* C1: every step that changes dev->state is taken by the context that
\* holds dev->lock (open, release, send_command, the completion callback,
\* the retry policy and response processing all write under the lock).
C1_StateChangesUnderLock ==
    [][state' # state => (lock # "none" /\ pc'[lock] # pc[lock])]_vars

\* the handlers, timers, task and transfer of each driver are neither
\* pending nor running
DemoQuiescent ==
    /\ timer = "idle" /\ hrtimer = "idle" /\ tasklet = "idle"
    /\ work = "idle" /\ delayed_work = "idle"
    /\ \A h \in Handlers : run[h] = "idle"
    /\ kthread = "dead"
AdvQuiescent ==
    /\ wq["work"] = "idle" /\ wq["dwork"] = "idle"
    /\ pc["work"] = "idle" /\ pc["dwork"] = "idle" /\ pc["urb"] = "idle"
    /\ ~inflight

\* C2: once async_demo_remove or advanced_disconnect has returned (the
\* device record is released), no timer, tasklet, work item, background
\* task or transfer completion is pending or running, in this and hence in
\* every later state.
C2_NothingAfterTeardown ==
    /\ ddev = "freed" => DemoQuiescent
    /\ dev = "freed" => AdvQuiescent

\* a teardown of the demo driver that found every mechanism active has
\* returned
C2_Witness ==
    /\ ddev = "freed" /\ rm = "done"
    /\ should_stop /\ thread_done = 0

\* the positions of async_demo_remove and of advanced_disconnect, in
\* program order
RmOrder ==
    << "none", "kthread_stop", "kthread_exit", "wait_done", "hrtimer_cancel",
       "del_timer", "tasklet_kill", "tasklet_wait", "cancel_work",
       "flush_work", "cancel_dwork", "flush_dwork", "return", "done" >>
DiscOrder == << "none", "cancel_work", "cancel_dwork", "kill_urb", "free", "done" >>
Rank(order, p) == CHOOSE i \in 1..Len(order) : order[i] = p
RmPast(p) == Rank(RmOrder, rm) > Rank(RmOrder, p)
DiscPast(p) == Rank(DiscOrder, disc) > Rank(DiscOrder, p)

HrtimerStopped == hrtimer = "idle" /\ run["hrtimer"] = "idle"
TimerStopped == timer = "idle" /\ run["timer"] = "idle"
TaskletStopped == tasklet = "idle" /\ run["tasklet"] = "idle"
WorkStopped == work = "idle" /\ run["work"] = "idle"
DelayedWorkStopped == delayed_work = "idle" /\ run["delayed_work"] = "idle"

\* C3 as stated: teardown stops the timers, the tasklet and the work items
\* before it asks the background task to stop and waits for it, and
\* cancels in-flight transfers before it releases the record; so while
\* the background task is being stopped the timers, tasklet and work items
\* are already quiescent.
C3_TaskStoppedAfterTimersAndWork ==
    /\ rm \in {"kthread_stop", "kthread_exit", "wait_done"} =>
          /\ HrtimerStopped /\ TimerStopped /\ TaskletStopped
          /\ WorkStopped /\ DelayedWorkStopped
    /\ rm = "done" => kthread = "dead"
    /\ dev = "freed" => AdvQuiescent

\* the state each teardown has established once it is past a step
C3_StepsDone ==
    /\ RmPast("none") => running = 0
    /\ RmPast("wait_done") => kthread = "dead"
    /\ RmPast("hrtimer_cancel") => HrtimerStopped
    /\ RmPast("del_timer") => TimerStopped
    /\ RmPast("tasklet_wait") => TaskletStopped
    /\ RmPast("flush_work") => WorkStopped
    /\ RmPast("flush_dwork") => DelayedWorkStopped
    /\ ddev = "freed" => rm = "done"
    /\ DiscPast("none") => ~intfdata
    /\ DiscPast("cancel_work") => wq["work"] = "idle" /\ pc["work"] = "idle"
    /\ DiscPast("cancel_dwork") => wq["dwork"] = "idle" /\ pc["dwork"] = "idle"
    /\ DiscPast("kill_urb") => ~inflight /\ pc["urb"] = "idle"
    /\ dev = "freed" => disc = "done"

\* C3 (amended): async_demo_remove clears running, stops the background
\* task and waits for its completion signal first, and only then cancels
\* the high-resolution timer, the coarse timer, the tasklet, the one-shot
\* work and the periodic work, in that order, before the record is
\* released; advanced_disconnect cancels the work, the delayed work and the
\* transfers, in that order, before it frees the record.  Each step has
\* finished before the next begins and what it stopped stays stopped.
C3_CodeOrder ==
    /\ []C3_StepsDone
    /\ [][rm' # rm => Rank(RmOrder, rm') = Rank(RmOrder, rm) + 1]_vars
    /\ [][disc' # disc => Rank(DiscOrder, disc') = Rank(DiscOrder, disc) + 1]_vars

\* the background task has been stopped and waited for while both timers
\* are still armed
C3_Witness ==
    /\ rm = "hrtimer_cancel" /\ kthread = "dead" /\ thread_done = 0
    /\ hrtimer = "armed" /\ timer = "pending"

\* C4: device_open succeeds, moving state from Idle to Connecting, exactly
\* when it finds state Idle while it holds the lock; otherwise it returns
\* -EBUSY and leaves state and last_result unchanged.
C4_OpenIdleToConnecting ==
    [][\A u \in Users :
         /\ DeviceOpenLock(u) =>
               /\ UNCHANGED << state, last_result >>
               /\ IF state = STATE_IDLE
                  THEN pc'[u] = "open_set" /\ lock' = u
                  ELSE pc'[u] = "idle" /\ ret' = 0 - EBUSY /\ ~opened'[u]
         /\ DeviceOpenSet(u) =>
               /\ state = STATE_IDLE /\ state' = STATE_CONNECTING
               /\ opened'[u] /\ ret' = 0 /\ UNCHANGED last_result]_vars

\* the step on which context c enters send_command
SendCommandEntry(c) ==
    IF c = "cmd"
    THEN \E k \in Cmds, d \in Datas, l \in Lens : SendCommandCall(k, d, l)
    ELSE SCCheck(c)

\* C5: send_command entered while state is Error returns -EINVAL for every
\* command code and payload, submits nothing and leaves state, last_result
\* and tx_buffer unchanged.
C5_ErrorRejectsCommand ==
    [][\A c \in Callers :
         (state = STATE_ERROR /\ SendCommandEntry(c)) =>
             /\ ret' = 0 - EINVAL
             /\ pc'[c] = "idle"
             /\ UNCHANGED << state, last_result, tx_buffer, inflight,
                             urb_status >>]_vars

\* send_command has returned -EINVAL in state Error and the frame of an
\* earlier Write command with a full payload is still in tx_buffer
C5_Witness ==
    /\ state = STATE_ERROR /\ ret = 0 - EINVAL /\ pc["cmd"] = "idle"
    /\ ~inflight /\ last_result = RESULT_INVALID
    /\ tx_buffer = Encode(CMD_WRITE, 1, PAYLOAD_SIZE)

\* the step on which context c leaves position p of its code
Leaves(c, p) == pc[c] = p /\ pc'[c] # p

\* C6: device_open on an Idle device yields Connecting; send_command then
\* yields Transferring with one transfer submitted; a success completion
\* yields Idle and records RESULT_OK (from whatever state it finds).
C6_OpenSendComplete ==
    [][/\ \A u \in Users :
            /\ (state = STATE_IDLE /\ pc[u] = "idle" /\ ~opened[u]
                  /\ DeviceOpenLock(u)) => pc'[u] = "open_set"
            /\ Leaves(u, "open_set") =>
                  state' = STATE_CONNECTING /\ ret' = 0 /\ opened'[u]
       /\ \A c \in Callers :
            /\ Leaves(c, "sc_build") =>
                  /\ state' = STATE_TRANSFERRING
                  /\ tx_buffer' = Encode(sc[c].cmd, sc[c].data, sc[c].len)
                  /\ pc'[c] = "sc_submit"
            /\ (Leaves(c, "sc_submit") /\ ret' = 0) =>
                  /\ ~inflight /\ inflight' /\ state' = state
                  /\ urb_status' = 0 - EINPROGRESS
       /\ (Leaves("urb", "cb_state") /\ urb_status = 0) =>
            state' = STATE_IDLE /\ pc'["urb"] = "cb_result"
       /\ (Leaves("urb", "cb_result") /\ urb_status = 0) =>
            last_result' = RESULT_OK /\ pc'["urb"] = "idle"]_vars

\* the end of the scenario: a file is open, the Status frame was sent and
\* its success completion has run
C6_Witness ==
    /\ opened["u1"] /\ tx_buffer = Encode(CMD_STATUS, NULL, 0)
    /\ urb_status = 0 /\ pc["urb"] = "idle" /\ ~inflight
    /\ state = STATE_IDLE /\ last_result = RESULT_OK

\* C7: a completion with a shutdown status (-ENOENT, -ECONNRESET,
\* -ESHUTDOWN) sets state to Error and leaves last_result as it was: the
\* callback ends after the write of the state.
C7_ShutdownKeepsResult ==
    [][/\ Leaves("urb", "idle") => UNCHANGED last_result
       /\ (Leaves("urb", "cb_state") /\ urb_status \in ShutdownStatus) =>
             /\ state' = STATE_ERROR
             /\ UNCHANGED last_result
             /\ pc'["urb"] = "idle"
       /\ Leaves("urb", "cb_result") => urb_status \notin ShutdownStatus]_vars

\* a shutdown completion has run and the result of an earlier failed
\* transfer is still recorded
C7_Witness ==
    /\ urb_status \in ShutdownStatus /\ pc["urb"] = "idle" /\ ~inflight
    /\ state = STATE_ERROR /\ last_result = RESULT_INVALID

\* the arguments of the retry policy's call of send_command
ResetArgs == [cmd |-> CMD_RESET, data |-> NULL, len |-> 0]

\* the first step of a retry tick: the handler takes the queued item and
\* tests state and auto_reconnect
TickStarts ==
    wq["dwork"] = "queued" /\ wq'["dwork"] = "idle" /\ disc' = disc

\* the last step of a retry tick that went into send_command
TickEnds ==
    pc["dwork"] \in {"sc_check", "sc_submit"} /\ pc'["dwork"] = "idle"

\* C8 as stated: a tick that finds Error with auto-reconnect enabled leaves
\* the device in state Connecting; a tick that finds auto-reconnect
\* disabled, or a state other than Error, changes nothing and submits
\* nothing.
C8_TickLeavesConnecting ==
    [][/\ TickEnds => state' = STATE_CONNECTING
       /\ (TickStarts /\ ~(state = STATE_ERROR /\ auto_reconnect)) =>
             UNCHANGED << state, tx_buffer, inflight, pc >>]_vars

\* C8 (amended): a tick that finds Error with auto-reconnect enabled writes
\* Connecting and calls send_command(Reset), which returns -EINVAL without
\* a submission if it reads Error again and otherwise builds the Reset
\* frame, writes Transferring and makes exactly one submission; the tick
\* writes no other state.  A tick that finds auto-reconnect disabled, or a
\* state other than Error, ends at once and changes and submits nothing.
C8_TickWritesTransferring ==
    /\ [](pc["dwork"] \in {"sc_check", "sc_build", "sc_submit"} =>
             sc["dwork"] = ResetArgs)
    /\ [][/\ TickStarts =>
                /\ UNCHANGED << state, tx_buffer, inflight >>
                /\ pc'["dwork"] = IF state = STATE_ERROR /\ auto_reconnect
                                  THEN "dw_set" ELSE "idle"
          /\ Leaves("dwork", "dw_set") =>
                /\ state' = STATE_CONNECTING
                /\ pc'["dwork"] = "sc_check"
                /\ UNCHANGED << tx_buffer, inflight >>
          /\ Leaves("dwork", "sc_check") =>
                /\ UNCHANGED << state, tx_buffer, inflight >>
                /\ IF state = STATE_ERROR
                   THEN pc'["dwork"] = "idle" /\ ret' = 0 - EINVAL
                   ELSE pc'["dwork"] = "sc_build"
          /\ Leaves("dwork", "sc_build") =>
                /\ state' = STATE_TRANSFERRING
                /\ tx_buffer' = Encode(CMD_RESET, NULL, 0)
                /\ pc'["dwork"] = "sc_submit"
                /\ UNCHANGED inflight
          /\ Leaves("dwork", "sc_submit") =>
                /\ pc'["dwork"] = "idle"
                /\ UNCHANGED << state, tx_buffer >>
                /\ inflight' = (inflight \/ ret' = 0)]_vars

\* a tick has run to its end: the Reset frame is in flight and the state
\* the tick wrote last is Transferring
C8_Witness ==
    /\ pc["dwork"] = "idle" /\ wq["dwork"] = "idle" /\ auto_reconnect
    /\ pc["cmd"] = "idle" /\ ret = 0
    /\ state = STATE_TRANSFERRING /\ inflight
    /\ tx_buffer = Encode(CMD_RESET, NULL, 0)

\* C9: every step that changes state from Error to another state is the
\* retry policy writing Connecting or process_response handling a Reset
\* frame and writing Idle.
C9_ErrorLeftOnlyByRetryOrReset ==
    [][(state = STATE_ERROR /\ state' # STATE_ERROR) =>
          \/ Leaves("dwork", "dw_set") /\ state' = STATE_CONNECTING
          \/ /\ state' = STATE_IDLE
             /\ \E p \in AllPackets : ProcessResponse(p)]_vars

\* C10: send_command neither rewrites tx_buffer nor submits a transfer
\* while a transfer submitted earlier is still in flight.
C10_OneTransferInFlight ==
    [][\A c \in Callers :
          (Leaves(c, "sc_build") \/ Leaves(c, "sc_submit")) => ~inflight]_vars

\* C11: send_command with a payload length above 60 returns -EINVAL,
\* leaves tx_buffer and state unchanged and submits nothing.
C11_OversizeRejected ==
    [][\A k \in Cmds, d \in Datas, l \in Lens :
          (l > PAYLOAD_SIZE /\ SendCommandCall(k, d, l)) =>
              /\ ret' = 0 - EINVAL
              /\ pc'["cmd"] = "idle"
              /\ UNCHANGED << state, tx_buffer, inflight >>]_vars

\* C12: for every command code and every payload of at most 60 bytes the
\* frame send_command builds is accepted by process_response and carries
\* the same command code and the same payload bytes.
C12_RoundTrip ==
    LET a == sc["cmd"] IN
    (pc["cmd"] = "sc_submit" /\ a.cmd \in Cmds /\ a.len <= PAYLOAD_SIZE) =>
        /\ ResponseResult(tx_buffer) = RESULT_OK
        /\ tx_buffer[1] = a.cmd
        /\ tx_buffer[2] + 256 * tx_buffer[3] = a.len
        /\ a.data # NULL =>
              \A i \in 0..(a.len - 1) :
                  tx_buffer[HEADER_SIZE + i] = DataAt(a.data, i)

\* C13: whenever state is Connecting, Connected or Transferring a
\* transfer is in flight.
C13_BusyStatesHaveTransfer ==
    (dev = "live"
       /\ state \in {STATE_CONNECTING, STATE_CONNECTED, STATE_TRANSFERRING})
    => inflight

\* nothing of the demo driver is armed, queued, running or created
DemoNothingStarted ==
    /\ timer = "idle" /\ hrtimer = "idle" /\ tasklet = "idle"
    /\ work = "idle" /\ delayed_work = "idle"
    /\ \A h \in Handlers : run[h] = "idle"
    /\ kthread = "none"

\* C14: after a failed probe (it returned an error) nothing acquired for
\* that attempt remains: no URB, device reference or record, no armed
\* timer, queued work item or thread.
C14_FailedAttachHoldsNothing ==
    /\ dev = "failed" =>
          /\ res = {} /\ ret < 0 /\ ~intfdata
          /\ AdvQuiescent
    /\ ddev = "failed" => DemoNothingStarted

\* probe failed at the endpoint lookup, after the record, the reference
\* and both URBs had been acquired
C14_Witness ==
    dev = "failed" /\ ret = 0 - ENXIO /\ res = {}

\* positions in which a context is inside an operation that may block:
\* usb_submit_urb(GFP_KERNEL) in send_command; msleep and mutex_lock in
\* demo_work_handler
BlockingPc == {"sc_submit"}
BlockingRun == {"sleep", "held"}

\* C15: no context is inside a blocking operation while it holds a device
\* spinlock, and the completion callback, the timers and the tasklet are
\* never inside a blocking operation.
C15_NoBlockingUnderSpinlock ==
    /\ \A c \in Callers : lock = c => pc[c] \notin BlockingPc
    /\ \A h \in Handlers : dlock = h => run[h] \notin BlockingRun
    /\ pc["urb"] \notin BlockingPc
    /\ \A h \in {"timer", "hrtimer", "tasklet"} : run[h] \notin BlockingRun

\* the tasklet is in its critical section while the work handler sleeps
C15_Witness ==
    dlock = "tasklet" /\ run["tasklet"] = "locked" /\ run["work"] = "sleep"

(* ------------------------------------------------------------------ *)
(* Background task and teardown of the demo driver                     *)
(* ------------------------------------------------------------------ *)
\* C16: the background task never signals thread_done before the stop
\* request, it signals at most once, and a task that has ended after the
\* stop request has signalled exactly once (the signal is either still
\* there or teardown's wait has consumed it), so that the wait returns
C16_SignalOnceAfterStop ==
    /\ thread_done > 0 => should_stop
    /\ thread_done <= 1
    /\ kthread = "dead" => (thread_done = 1 \/ RmPast("wait_done"))

\* fairness of the periodic producers: an armed timer expires, a queued
\* work item is run by a worker, and a callback that has started runs on
Fairness ==
    /\ WF_vars(TimerExpire) /\ WF_vars(TimerCheck) /\ WF_vars(TimerRearm)
    /\ WF_vars(HrtimerExpire) /\ WF_vars(HrtimerCheck)
    /\ WF_vars(HrtimerReturn)
    /\ WF_vars(DelayedWorkRun) /\ WF_vars(DelayedWorkCheck)
    /\ WF_vars(DelayedWorkRearm)

\* the demo driver alone, with its timers and workers scheduled fairly
DemoOnly == drv = "demo" /\ AdvInit /\ DemoInit

SpecDemoLive == DemoOnly /\ [][DemoNext]_vars /\ Fairness

\* producer h is armed / queued
Pending(h) ==
    CASE h = "timer" -> timer = "pending"
      [] h = "hrtimer" -> hrtimer = "armed"
      [] OTHER -> delayed_work = "queued"

\* the callback of h reads the running flag and decides
Decides(h) == run[h] = "cb" /\ run'[h] # "cb"

\* the callback of h executes its re-arm and returns
Rearms(h) == run[h] = "rearm" /\ run'[h] = "idle"

\* the callback goes to its re-arm exactly if it read the flag as set
DecisionFollowsFlag ==
    \A h \in Periodic :
        Decides(h) => run'[h] = IF running = 1 THEN "rearm" ELSE "idle"

\* a producer is armed only by probe or by its own callback's re-arm
ArmedOnlyByRearm ==
    \A h \in Periodic :
        (~Pending(h) /\ Pending(h)') => (Rearms(h) \/ ddev = "absent")

\* after the flag is cleared at most one firing of each producer begins,
\* and once it has begun the producer is never pending again
AtMostOneLateFiring ==
    \A h \in Periodic : fired[h] <= 1 /\ (fired[h] = 1 => ~Pending(h))

\* while the flag of an attached device stays set every producer fires
\* again and again
FiresWithoutEnd ==
    <>[](ddev = "live" /\ running = 1) =>
        \A h \in Periodic : []<>(run[h] = "cb")

\* C17 as stated: each periodic producer re-arms itself at the end of a
\* firing exactly if it read the running flag as set; while the flag stays
\* set each fires without end; after the flag is cleared at most one
\* further firing of each begins and then it is never pending again
C17_RearmIffRunning ==
    /\ [][DecisionFollowsFlag /\ ArmedOnlyByRearm
          /\ \A h \in Periodic : Rearms(h) => Pending(h)']_vars
    /\ []AtMostOneLateFiring
    /\ FiresWithoutEnd

\* C17 amended: the re-arm of the periodic work is refused while
\* cancel_delayed_work_sync holds the item's pending bit; the timers
\* always re-arm
C17_RearmUnlessCancelling ==
    /\ [][DecisionFollowsFlag /\ ArmedOnlyByRearm
          /\ \A h \in Periodic :
                Rearms(h) => (Pending(h)' <=>
                                ~(h = "delayed_work"
                                  /\ delayed_work = "cancel"))]_vars
    /\ []AtMostOneLateFiring
    /\ FiresWithoutEnd

\* the periodic work read the flag as set, the flag was cleared since, and
\* the handler reaches its re-arm while teardown is cancelling the item
C17_Witness ==
    /\ running = 0 /\ run["delayed_work"] = "rearm"
    /\ delayed_work = "cancel" /\ rm = "flush_dwork"

\* C18: teardown always terminates: while async_demo_remove has started
\* and not returned, it or a party it waits for can take a step
C18_TeardownNeverStuck ==
    (rm \notin {"none", "done"}) => ENABLED DemoNext

(* ------------------------------------------------------------------ *)
(* device_write                                                        *)
(* ------------------------------------------------------------------ *)
\* device_write as a function of the device record: the record is the one
\* advanced_probe leaves, the file is open, and dev->state is an input
\* drawn from enum device_state (no statement of the driver assigns
\* STATE_CONNECTED, so the Connected check of lines 339-340 is passed only
\* by a record handed over in that state)
WriteInit ==
    /\ drv = "adv" /\ DemoInit
    /\ dev = "live" /\ intfdata = TRUE
    /\ res = ProbeAcquired("none")
    /\ closed = FALSE
    /\ state \in States
    /\ last_result = RESULT_OK
    /\ tx_buffer = ZeroPacket
    /\ ctrl_raw = 0
    /\ auto_reconnect = TRUE
    /\ lock = "none"
    /\ inflight = FALSE
    /\ urb_status = 0
    /\ wq = [w \in {"work", "dwork"} |-> "idle"]
    /\ pc = [c \in AdvCtx |-> "idle"]
    /\ sc = [c \in Callers |-> NoArgs]
    /\ ret = NoRet
    /\ opened = [u \in Users |-> TRUE]
    /\ disc = "none"

WriteNext ==
    \/ \E u \in Users : DeviceWrite(u)
    \/ \E u \in Users : DeviceRead(u)
    \/ \E u \in Users : SCCheck(u)
    \/ \E u \in Users : SCBuild(u)
    \/ \E u \in Users, r \in SubmitResults \cup {0 - EBUSY} : SCSubmit(u, r)
    \/ \E s \in UrbStatuses : UrbGiveback(s)
    \/ CallbackState
    \/ CallbackResult
    \/ \E p \in RespPackets : ProcessResponse(p)

SpecWrite == WriteInit /\ [][WriteNext]_vars

\* the frame in tx_buffer is a Write frame of length n whose payload is
\* the first n bytes of a user buffer
WriteFrame(n) ==
    /\ tx_buffer[0] = SYNC_BYTE
    /\ tx_buffer[1] = CMD_WRITE
    /\ tx_buffer[2] + 256 * tx_buffer[3] = n
    /\ \E fill \in 1..MaxFill :
          \A i \in 0..(n - 1) : tx_buffer[HEADER_SIZE + i] = DataAt(fill, i)

C20_IdleAfterRelease ==
    closed => state = STATE_IDLE

(* ------------------------------------------------------------------ *)
(* STATE_CONNECTED                                                     *)
(* ------------------------------------------------------------------ *)
\* positions inside send_command
InSendCommand == {"sc_check", "sc_build", "sc_submit"}

\* C21: no operation assigns the Connected state: the state is never
\* Connected, so read() and write() never get past their Connected test
\* (write never enters send_command, neither returns a byte count or a
\* fault), and the one-shot work handler never calls send_command and
\* never keeps the spinlock
C21_NeverConnected ==
    /\ state # STATE_CONNECTED
    /\ \A u \in Users : pc[u] \notin InSendCommand
    /\ ret \notin (1..PACKET_SIZE) \cup {0 - EFAULT}
    /\ pc["work"] = "idle" /\ lock # "work"

\* a read() or write() on the open, Connecting device returned NotReady;
\* the one-shot work item is not queued and the retry tick is
C21_Witness ==
    /\ ret = 0 - ENODEV
    /\ \E u \in Users : opened[u]
    /\ state = STATE_CONNECTING
    /\ wq["work"] = "idle" /\ wq["dwork"] = "queued"

====
